---- MODULE Spec2Model ----
(***************************************************************************)
(* A model of the request dispatch pipeline and the lifecycle handlers of  *)
(* the MCP server (src/src/server.ts).  Every request handler is an async  *)
(* function: one action of the model is the code that runs between two     *)
(* await points of one handler.                                            *)
(***************************************************************************)
EXTENDS Integers, Sequences, FiniteSets, TLC

(* Bounds of the model. *)
MaxReq == 2
MaxSignals == 2
MaxStringLen == 3
MaxPathLen == 4
MaxTextLen == 3

Req == 1..MaxReq

(***************************************************************************)
(* Values.  A JavaScript value is a record [type, val]: val is the value's *)
(* String() rendering, as template strings print it.                       *)
(***************************************************************************)
Undefined == [type |-> "undefined", val |-> "undefined"]
StringValue(s) == [type |-> "string", val |-> s]
NumberValue(s) == [type |-> "number", val |-> s]
ObjectValue(s) == [type |-> "object", val |-> s]
EmptyObject == ObjectValue("{}")
\* a number whose magnitude a schema compares
Number(n) == [type |-> "number", val |-> ToString(n), num |-> n]
Null == [type |-> "object", val |-> "null"]

(* How a call completes: it returns a value or it throws an error. *)
Returned(v) == [threw |-> FALSE, value |-> v]
Threw(e) == [threw |-> TRUE, error |-> e]

(* Errors: class is the constructor, "string" a thrown value that is no Error. *)
NoError == [class |-> "none", message |-> ""]
NewError(msg) == [class |-> "Error", message |-> msg]
IsError(e) == e.class \notin {"none", "string"}
\* error instanceof Error ? error : new Error(String(error))
AsError(e) == IF IsError(e) THEN e ELSE NewError(e.message)

NoResult == [none |-> TRUE]
NoCall == [none |-> TRUE]

(* Inputs the transport may deliver: request.params of a CallTool request  *)
(* (well-formed ones, and ones with one or two malformed fields) and the   *)
(* uri of a ReadResource request.                                          *)
CallToolParams ==
  { [name |-> StringValue("text-processing"), arguments |-> ObjectValue("{operation,text}")],
    [name |-> StringValue("calculate"), arguments |-> Undefined],
    [name |-> StringValue("no-such-tool"), arguments |-> ObjectValue("{}")],
    [name |-> StringValue("calculate"), arguments |-> StringValue("not-an-object")],
    [name |-> NumberValue("42"), arguments |-> Undefined],
    [name |-> NumberValue("42"), arguments |-> StringValue("not-an-object")] }
ResourceUris == {StringValue("config://server"), StringValue("docs://readme"),
                 StringValue("missing://resource")}
SIGNALS == {"SIGINT", "SIGTERM"}
\* new Date().toISOString(): a reading of the environment's clock
Timestamps == {"2026-01-01T00:00:00.000Z", "2026-01-01T00:00:01.000Z"}

(***************************************************************************)
(* utils/errors.ts                                                         *)
(***************************************************************************)
\* generateRequestId(): req_<time component>_<random base36 component>
RequestIds == {"req_1700000000000_k3x9a", "req_1700000000001_0zq7b"}

(* The taxonomy of section 4.2: class MCPError and its three subclasses,  *)
(* each with the code and statusCode its constructor fixes.                *)
MCPError(message) ==
  [class |-> "MCPError", name |-> "MCPError", message |-> message,
   code |-> "MCP_ERROR", statusCode |-> 500, details |-> Undefined]

\* a ValidationError that keeps the statusCode of its base class
ValidationErrorWithBaseStatus(message, details) ==
  [class |-> "ValidationError", name |-> "ValidationError", message |-> message,
   code |-> "VALIDATION_ERROR", statusCode |-> 500, details |-> details]

ValidationError(message, details) ==
  [class |-> "ValidationError", name |-> "ValidationError", message |-> message,
   code |-> "VALIDATION_ERROR", statusCode |-> 400, details |-> details]

ToolExecutionError(message, toolName) ==
  [class |-> "ToolExecutionError", name |-> "ToolExecutionError", message |-> message,
   code |-> "TOOL_EXECUTION_ERROR", statusCode |-> 500, details |-> [toolName |-> toolName]]

ResourceAccessError(message, resourceUri) ==
  [class |-> "ResourceAccessError", name |-> "ResourceAccessError", message |-> message,
   code |-> "RESOURCE_ACCESS_ERROR", statusCode |-> 500,
   details |-> [resourceUri |-> resourceUri]]

\* error instanceof MCPError
IsTaxonomy(e) ==
  e.class \in {"MCPError", "ValidationError", "ToolExecutionError", "ResourceAccessError"}

\* the closed taxonomy of section 4.2: class -> code
ErrorCode(e) ==
  CASE e.class = "MCPError" -> "MCP_ERROR"
    [] e.class = "ValidationError" -> "VALIDATION_ERROR"
    [] e.class = "ToolExecutionError" -> "TOOL_EXECUTION_ERROR"
    [] e.class = "ResourceAccessError" -> "RESOURCE_ACCESS_ERROR"
    [] OTHER -> "INTERNAL_ERROR"

\* error.stack of an error that is no member of the taxonomy
StackOf(error) == error.class \o ": " \o error.message \o "\n    at <anonymous>"

\* a normaliser that classifies every error by its class alone and drops the
\* details
createErrorResponseWithoutDetails(error, requestId, now) ==
  Returned([error |-> [code |-> ErrorCode(error), message |-> error.message,
                       details |-> Undefined, timestamp |-> now]])

\* a normaliser that handles the members of the taxonomy only
createErrorResponseTaxonomyOnly(error, requestId, now) ==
  IF IsTaxonomy(error)
  THEN Returned([error |-> [code |-> error.code, message |-> error.message,
                            details |-> error.details, timestamp |-> now]])
  ELSE Threw([class |-> "TypeError", message |-> "Cannot read properties of undefined"])

\* createErrorResponse(error, requestId); now is the reading of the clock the
\* call takes for the timestamp
createErrorResponse(error, requestId, now) ==
  IF IsTaxonomy(error)
  THEN Returned([error |-> [code |-> error.code, message |-> error.message,
                            details |-> error.details, timestamp |-> now]])
  ELSE Returned([error |-> [code |-> "INTERNAL_ERROR", message |-> error.message,
                            details |-> [stack |-> StackOf(error)], timestamp |-> now]])

\* a reader of messages that renders every value that is no Error as a string
getErrorMessageStringified(error) ==
  IF "class" \in DOMAIN error THEN error.message ELSE error.val

\* getErrorMessage(error): the argument is an error record or a value [type, val]
getErrorMessage(error) ==
  IF "class" \in DOMAIN error THEN error.message
  ELSE IF error.type = "string" THEN error.val
  ELSE "Unknown error occurred"

(***************************************************************************)
(* utils/validation.ts.  A schema is the sequence of its fields in the     *)
(* order the schema declares them; validateInput raises one error per      *)
(* field whose constraint the input violates, in that order.               *)
(***************************************************************************)
\* CallToolRequestSchema.shape.params = { name: string, arguments?: record }
CallToolRequestSchemaParams ==
  << [field |-> "name", type |-> "string", optional |-> FALSE, hasMin |-> FALSE, min |-> 0],
     [field |-> "arguments", type |-> "object", optional |-> TRUE, hasMin |-> FALSE, min |-> 0] >>

\* z.object({ name: z.string().min(1), age: z.number().min(0) })
testSchema ==
  << [field |-> "name", type |-> "string", optional |-> FALSE, hasMin |-> TRUE, min |-> 1],
     [field |-> "age", type |-> "number", optional |-> FALSE, hasMin |-> TRUE, min |-> 0] >>

\* the value is below the minimum of the field: the length of a string (only
\* the empty string is shorter than one character), the magnitude of a number
BelowMin(c, v) ==
  IF c.type = "string" THEN c.min >= 1 /\ v.val = ""
  ELSE IF c.type = "number" THEN v.num < c.min
  ELSE FALSE

FieldErrors(c, v) ==
  IF v.type = "undefined" /\ c.optional THEN <<>>
  ELSE IF v.type # c.type
  THEN <<[field |-> c.field, message |-> "Expected " \o c.type \o ", received " \o v.type]>>
  ELSE IF c.hasMin /\ BelowMin(c, v)
  THEN <<[field |-> c.field,
          message |-> IF c.type = "string"
                      THEN "String must contain at least " \o ToString(c.min) \o " character(s)"
                      ELSE "Number must be greater than or equal to " \o ToString(c.min)]>>
  ELSE <<>>

RECURSIVE SchemaErrors(_, _)
SchemaErrors(schema, input) ==
  IF schema = <<>> THEN <<>>
  ELSE FieldErrors(schema[1], input[schema[1].field]) \o SchemaErrors(Tail(schema), input)

\* a validator that stops at the first field in error
validateInputFirstError(schema, input) ==
  LET errors == SchemaErrors(schema, input)
  IN  IF errors = <<>> THEN [success |-> TRUE, data |-> input, errors |-> <<>>]
      ELSE [success |-> FALSE, data |-> Undefined, errors |-> <<errors[1]>>]

validateInput(schema, input) ==
  LET errors == SchemaErrors(schema, input)
  IN  IF errors = <<>> THEN [success |-> TRUE, data |-> input, errors |-> <<>>]
      ELSE [success |-> FALSE, data |-> Undefined, errors |-> errors]

(* Strings that are edited character by character are sequences of         *)
(* one-character strings.                                                  *)
Whitespace == {" "}
\* the denylist of the sanitizer: angle brackets, quotes, semicolons
Denylist == {"<", ">", "\"", "'", ";"}

\* String.prototype.replace(/[...]/g, ''): the string without the characters of a set
RECURSIVE Strip(_, _)
Strip(str, chars) ==
  IF str = <<>> THEN <<>>
  ELSE IF str[1] \in chars THEN Strip(Tail(str), chars)
  ELSE <<str[1]>> \o Strip(Tail(str), chars)

RECURSIVE TrimStart(_)
TrimStart(str) ==
  IF str # <<>> /\ str[1] \in Whitespace THEN TrimStart(Tail(str)) ELSE str

RECURSIVE TrimEnd(_)
TrimEnd(str) ==
  IF str # <<>> /\ str[Len(str)] \in Whitespace
  THEN TrimEnd(SubSeq(str, 1, Len(str) - 1))
  ELSE str

\* String.prototype.trim
Trim(str) == TrimEnd(TrimStart(str))

\* a sanitizer that trims before it strips the denylist
sanitizeStringTrimFirst(input) == Strip(Trim(input), Denylist)

\* sanitizeString(input): strip the denylist, then trim
sanitizeString(input) == Trim(Strip(input, Denylist))

\* path.split('/'): the segments of a path
RECURSIVE Segments(_, _)
Segments(path, current) ==
  IF path = <<>> THEN <<current>>
  ELSE IF path[1] = "/" THEN <<current>> \o Segments(Tail(path), <<>>)
  ELSE Segments(Tail(path), Append(current, path[1]))

InvalidPathError ==
  ValidationError("Invalid file path: path traversal not allowed", Undefined)

\* a path validator that rejects a leading parent-directory segment only
validateFilePathLeadingOnly(path) ==
  IF Segments(path, <<>>)[1] = <<".", ".">> \/ (path # <<>> /\ path[1] = "/")
  THEN Threw(InvalidPathError)
  ELSE Returned(Strip(path, Denylist))

\* validateFilePath(path): reject a parent-directory segment or an absolute
\* root, then strip the disallowed punctuation from the remainder
validateFilePath(path) ==
  LET segments == Segments(path, <<>>)
  IN  IF (\E i \in 1..Len(segments) : segments[i] = <<".", ".">>)
         \/ (path # <<>> /\ path[1] = "/")
      THEN Threw(InvalidPathError)
      ELSE Returned(Strip(path, Denylist))

\* validation.errors.map(e => e.message).join(', ')
RECURSIVE Join(_, _)
Join(msgs, sep) ==
  IF msgs = <<>> THEN ""
  ELSE IF Len(msgs) = 1 THEN msgs[1]
  ELSE msgs[1] \o sep \o Join(Tail(msgs), sep)

Messages(errors) == [i \in 1..Len(errors) |-> errors[i].message]

(***************************************************************************)
(* tools/setup.ts and resources/setup.ts: the registries, rebuilt by every *)
(* call.                                                                   *)
(***************************************************************************)
setupTools ==
  << [name |-> "text-processing", description |-> "Process and analyze text",
      inputSchema |-> "schema:text-processing", handler |-> "handler:text-processing"],
     [name |-> "calculate", description |-> "Evaluate an expression",
      inputSchema |-> "schema:calculate", handler |-> "handler:calculate"] >>

setupResources ==
  << [uri |-> "config://server", name |-> "Server configuration",
      description |-> "Current configuration", mimeType |-> "application/json",
      handler |-> "handler:config"],
     [uri |-> "docs://readme", name |-> "Documentation",
      description |-> "Project documentation", mimeType |-> "text/markdown",
      handler |-> "handler:docs"] >>

\* Array.prototype.find: the first entry the test holds of, or undefined (0)
First(hits) == IF hits = {} THEN 0 ELSE CHOOSE i \in hits : \A j \in hits : i <= j

\* a lookup that falls back to the first entry when nothing matches
FindToolOrFirst(tools, name) ==
  LET hits == {i \in 1..Len(tools) : name.type = "string" /\ tools[i].name = name.val}
  IN  IF hits = {} THEN 1 ELSE First(hits)

\* tools.find(t => t.name === name)
FindTool(tools, name) ==
  First({i \in 1..Len(tools) : name.type = "string" /\ tools[i].name = name.val})

\* a lookup that serves the first resource when no uri matches
FindResourceOrFirst(resources, uri) ==
  LET hits == {i \in 1..Len(resources) : uri.type = "string" /\ resources[i].uri = uri.val}
  IN  IF hits = {} THEN 1 ELSE First(hits)

\* resources.find(r => r.uri === uri)
FindResource(resources, uri) ==
  First({i \in 1..Len(resources) : uri.type = "string" /\ resources[i].uri = uri.val})

(***************************************************************************)
(* What an awaited handler may do: return a result, return a result that   *)
(* carries isError, throw an Error, throw a value that is no Error.        *)
(***************************************************************************)
ToolOutcomes(tool) ==
  { [kind |-> "return", value |-> [content |-> "result of " \o tool.name, isError |-> FALSE],
     error |-> NoError],
    [kind |-> "return", value |-> [content |-> "Error: " \o tool.name, isError |-> TRUE],
     error |-> NoError],
    IF tool.name = "text-processing"
    THEN [kind |-> "throw", value |-> NoResult,
          error |-> [class |-> "TypeError", message |-> tool.name \o " failed"]]
    ELSE [kind |-> "throw", value |-> NoResult,
          error |-> [class |-> "string", message |-> "thrown by " \o tool.name]] }

ResourceOutcomes(resource) ==
  { [kind |-> "return", value |-> [uri |-> resource.uri, text |-> "contents of " \o resource.uri],
     error |-> NoError],
    IF resource.uri = "config://server"
    THEN [kind |-> "throw", value |-> NoResult,
          error |-> ResourceAccessError(resource.uri \o " unreadable", resource.uri)]
    ELSE [kind |-> "throw", value |-> NoResult,
          error |-> [class |-> "string", message |-> "thrown by " \o resource.uri]] }

NoOutcome == [kind |-> "none", value |-> NoResult, error |-> NoError]

(***************************************************************************)
(* State.                                                                  *)
(***************************************************************************)
VARIABLES
  kind,        \* per request: which handler serves it ("none": not received yet)
  params,      \* request.params
  requestId,   \* const requestId = generateRequestId()
  pc,          \* where the handler stands: the await it is suspended at, or how it ended
  hist,        \* the dispatch states the request went through
  registry,    \* const tools / const resources: the registry built for the request
  setupCalls,  \* how many times the request has called setupTools() / setupResources()
  call,        \* the handler invocation: its handler, input and context
  outcome,     \* what the awaited handler did
  result,      \* the value the request handler returned
  thrown,      \* the error the request handler threw to the transport
  logs,        \* the entries written through log.withContext(requestId)
  shutdowns,   \* the invocations of shutdown: signal and state
  closeCalls,  \* how often this.server.close() was called
  exited,      \* process.exit was called
  exitCode,
  processLog,  \* the entries written through log.info / log.error / console.error
  mainPc,      \* where main() stands: the await it is suspended at, or how it ended
  config,      \* the configuration of the process
  installed,   \* the MCPServer was constructed: request and signal handlers are installed
  health,      \* the health checker: "none", "starting", "started", "failed"
  transport,   \* the transport connection: "none", "connecting", "connected", "failed"
  fn,          \* the utility function under check ("none": no function, the server runs)
  arg,         \* its argument
  ret          \* what it returned or threw

reqVars == <<kind, params, requestId, pc, hist, registry, setupCalls, call, outcome, result, thrown, logs>>
lifeVars == <<shutdowns, closeCalls, exited, exitCode, processLog>>
startVars == <<mainPc, config, installed, health, transport>>
pureVars == <<fn, arg, ret>>
vars == <<kind, params, requestId, pc, hist, registry, setupCalls, call, outcome, result, thrown, logs,
          shutdowns, closeCalls, exited, exitCode, processLog,
          mainPc, config, installed, health, transport, fn, arg, ret>>

NoParams == [name |-> Undefined, arguments |-> Undefined, uri |-> Undefined]

\* no request received, no signal received
InitServer ==
  /\ kind = [r \in Req |-> "none"]
  /\ params = [r \in Req |-> NoParams]
  /\ requestId = [r \in Req |-> ""]
  /\ pc = [r \in Req |-> "Idle"]
  /\ hist = [r \in Req |-> <<>>]
  /\ registry = [r \in Req |-> <<>>]
  /\ setupCalls = [r \in Req |-> 0]
  /\ call = [r \in Req |-> NoCall]
  /\ outcome = [r \in Req |-> NoOutcome]
  /\ result = [r \in Req |-> NoResult]
  /\ thrown = [r \in Req |-> NoError]
  /\ logs = [r \in Req |-> <<>>]
  /\ shutdowns = <<>>
  /\ closeCalls = 0
  /\ exited = FALSE
  /\ exitCode = -1
  /\ processLog = <<>>

NotApplied == [applied |-> FALSE]

\* no utility function is under check
InitNoCall ==
  /\ fn = "none"
  /\ arg = Undefined
  /\ ret = NotApplied

\* the configuration src/__tests__/setup.ts mocks, with the log level of a running server
RunningConfig ==
  [port |-> 3000, host |-> "localhost", logLevel |-> "error", enableHealthCheck |-> FALSE]

\* The server after main() has constructed and started it.
Init ==
  /\ InitServer
  /\ InitNoCall
  /\ mainPc = "started"
  /\ config = RunningConfig
  /\ installed = TRUE
  /\ health = "none"
  /\ transport = "connected"

\* log.withContext(id).info(message) / .error(message, error)
LogInfo(id, message) == [level |-> "info", message |-> message, requestId |-> id, error |-> NoError]
LogError(id, message, error) ==
  [level |-> "error", message |-> message, requestId |-> id, error |-> error]

\* a handler that ended before its last log statement wrote nothing
NoLog == [level |-> "none", message |-> "", requestId |-> "", error |-> NoError]
Written(entry) == IF entry = NoLog THEN <<>> ELSE <<entry>>

\* a server that builds the registry for its first request and serves the
\* later requests from that copy
SetupCalledUnlessCached(r, calls) ==
  IF \E q \in Req : calls[q] > 0 THEN calls ELSE [calls EXCEPT ![r] = @ + 1]

\* const tools = await setupTools() / const resources = await setupResources():
\* the statement calls the collaborator each time it is executed
SetupCalled(r, calls) == [calls EXCEPT ![r] = @ + 1]

\* The transport delivers the requests one decoded message at a time.
CanReceive(r) ==
  /\ ~exited
  /\ transport = "connected"
  /\ kind[r] = "none"
  /\ \A q \in Req : q < r => kind[q] # "none"

(***************************************************************************)
(* The CallTool handler (server.ts 94-126).                                *)
(***************************************************************************)
\* the dispatcher without the check of validation.success
ValidationPassedAlways(validation) == TRUE

\* if (!validation.success) throw ...
ValidationPassed(validation) == validation.success

\* the message built from the first field error alone
InvalidRequestErrorFirstOnly(validation) ==
  NewError("Invalid tool request: " \o validation.errors[1].message)

\* new Error(`Invalid tool request: ${validation.errors.map(e => e.message).join(', ')}`)
InvalidRequestError(validation) ==
  NewError("Invalid tool request: " \o Join(Messages(validation.errors), ", "))

\* throw new Error(`Tool not found: ${name}`)
ToolNotFoundError(name) == NewError("Tool not found: " \o name.val)

\* args || {}
ArgsOrEmpty(args) == IF args.type = "undefined" THEN EmptyObject ELSE args

\* the request id kept in one variable shared by all invocations: the id of the
\* request received last
ToolContextOfLatest(r, ts) ==
  LET latest == CHOOSE q \in Req : kind[q] # "none" /\ \A o \in Req : kind[o] # "none" => o <= q
  IN  [requestId |-> requestId[latest], timestamp |-> ts]

\* { requestId, timestamp: new Date().toISOString() }
ToolContext(r, ts) == [requestId |-> requestId[r], timestamp |-> ts]

\* a dispatcher that turns a result flagged isError into a thrown error
ToolReturnThrowsOnIsError(name, id, value) ==
  IF value.isError
  THEN [pc |-> "Failed", result |-> NoResult, thrown |-> NewError(value.content),
        log |-> LogError(id, "Tool execution failed: " \o name.val, NewError(value.content))]
  ELSE [pc |-> "Responded", result |-> value, thrown |-> NoError,
        log |-> LogInfo(id, "Tool executed successfully: " \o name.val)]

\* the end of the try block: log the success, return result as any
ToolReturn(name, id, value) ==
  [pc |-> "Responded", result |-> value, thrown |-> NoError,
   log |-> LogInfo(id, "Tool executed successfully: " \o name.val)]

\* a catch block that answers with the error envelope instead of throwing
ToolCatchReturnsEnvelope(name, id, error) ==
  [pc |-> "Responded",
   result |-> createErrorResponse(AsError(error), id, CHOOSE now \in Timestamps : TRUE).value,
   thrown |-> NoError,
   log |-> LogError(id, "Tool execution failed: " \o name.val, AsError(error))]

\* the catch block: createErrorResponse, log the error, throw error
ToolCatch(name, id, error) ==
  LET errorResponse == {createErrorResponse(AsError(error), id, now) : now \in Timestamps}
  IN  IF \E response \in errorResponse : response.threw
      THEN LET response == CHOOSE response \in errorResponse : response.threw
           IN  [pc |-> "Failed", result |-> NoResult, thrown |-> response.error, log |-> NoLog]
      ELSE [pc |-> "Failed", result |-> NoResult, thrown |-> error,
            log |-> LogError(id, "Tool execution failed: " \o name.val, AsError(error))]

\* A request handler ends: what it returned or threw, and its last log entry.
Finish(r, c) ==
  /\ pc' = [pc EXCEPT ![r] = c.pc]
  /\ hist' = [hist EXCEPT ![r] = Append(@, c.pc)]
  /\ result' = [result EXCEPT ![r] = c.result]
  /\ thrown' = [thrown EXCEPT ![r] = c.thrown]
  /\ logs' = [logs EXCEPT ![r] = @ \o Written(c.log)]

\* From the receipt of the request to `await setupTools()`.
CallToolRequest(r) ==
  /\ CanReceive(r)
  /\ \E cp \in CallToolParams, id \in RequestIds :
       LET name == cp.name
           p == [name |-> cp.name, arguments |-> cp.arguments, uri |-> Undefined]
           validation == validateInput(CallToolRequestSchemaParams, p)
           entry == LogInfo(id, "Executing tool: " \o name.val)
       IN  /\ kind' = [kind EXCEPT ![r] = "CallTool"]
           /\ params' = [params EXCEPT ![r] = p]
           /\ requestId' = [requestId EXCEPT ![r] = id]
           /\ IF ValidationPassed(validation)
              THEN /\ pc' = [pc EXCEPT ![r] = "AwaitSetup"]
                   /\ hist' = [hist EXCEPT ![r] = <<"Received", "Validated">>]
                   /\ logs' = [logs EXCEPT ![r] = <<entry>>]
                   /\ UNCHANGED <<result, thrown>>
              ELSE LET c == ToolCatch(name, id, InvalidRequestError(validation))
                   IN  /\ pc' = [pc EXCEPT ![r] = c.pc]
                       /\ hist' = [hist EXCEPT ![r] = <<"Received", c.pc>>]
                       /\ result' = [result EXCEPT ![r] = c.result]
                       /\ thrown' = [thrown EXCEPT ![r] = c.thrown]
                       /\ logs' = [logs EXCEPT ![r] = <<entry>> \o Written(c.log)]
  /\ UNCHANGED <<registry, setupCalls, call, outcome>>
  /\ UNCHANGED <<lifeVars, startVars, pureVars>>

\* setupTools() resolved: the lookup, and the call of the handler up to its await.
CallToolLookup(r) ==
  /\ ~exited
  /\ kind[r] = "CallTool"
  /\ pc[r] = "AwaitSetup"
  /\ LET built == setupTools
         name == params[r].name
         i == FindTool(built, name)
     IN  /\ registry' = [registry EXCEPT ![r] = built]
         /\ setupCalls' = SetupCalled(r, setupCalls)
         /\ IF i = 0
            THEN /\ Finish(r, ToolCatch(name, requestId[r], ToolNotFoundError(name)))
                 /\ UNCHANGED call
            ELSE /\ \E ts \in Timestamps :
                      call' = [call EXCEPT ![r] =
                                 [handler |-> built[i].handler,
                                  input |-> ArgsOrEmpty(params[r].arguments),
                                  context |-> ToolContext(r, ts)]]
                 /\ pc' = [pc EXCEPT ![r] = "AwaitHandler"]
                 /\ hist' = [hist EXCEPT ![r] = Append(@, "Executed")]
                 /\ UNCHANGED <<result, thrown, logs>>
  /\ UNCHANGED <<kind, params, requestId, outcome>>
  /\ UNCHANGED <<lifeVars, startVars, pureVars>>

\* The awaited handler settled.
CallToolSettle(r) ==
  /\ ~exited
  /\ kind[r] = "CallTool"
  /\ pc[r] = "AwaitHandler"
  /\ \E out \in ToolOutcomes(registry[r][FindTool(registry[r], params[r].name)]) :
       /\ outcome' = [outcome EXCEPT ![r] = out]
       /\ IF out.kind = "return"
          THEN Finish(r, ToolReturn(params[r].name, requestId[r], out.value))
          ELSE Finish(r, ToolCatch(params[r].name, requestId[r], out.error))
  /\ UNCHANGED <<kind, params, requestId, registry, setupCalls, call>>
  /\ UNCHANGED <<lifeVars, startVars, pureVars>>

(***************************************************************************)
(* The ListTools handler (server.ts 74-91).                                *)
(***************************************************************************)
\* return { tools }
ListToolsResult(built) == [tools |-> built]

ListToolsRequest(r) ==
  /\ CanReceive(r)
  /\ \E id \in RequestIds :
       /\ requestId' = [requestId EXCEPT ![r] = id]
       /\ logs' = [logs EXCEPT ![r] = <<LogInfo(id, "Listing available tools")>>]
  /\ kind' = [kind EXCEPT ![r] = "ListTools"]
  /\ pc' = [pc EXCEPT ![r] = "AwaitSetup"]
  /\ hist' = [hist EXCEPT ![r] = <<"Received">>]
  /\ UNCHANGED <<params, registry, setupCalls, call, outcome, result, thrown>>
  /\ UNCHANGED <<lifeVars, startVars, pureVars>>

ListToolsReturn(r) ==
  /\ ~exited
  /\ kind[r] = "ListTools"
  /\ pc[r] = "AwaitSetup"
  /\ LET built == setupTools
     IN  /\ registry' = [registry EXCEPT ![r] = built]
         /\ setupCalls' = SetupCalled(r, setupCalls)
         /\ Finish(r, [pc |-> "Responded", result |-> ListToolsResult(built), thrown |-> NoError,
                       log |-> LogInfo(requestId[r],
                                 "Found " \o ToString(Len(built)) \o " tools")])
  /\ UNCHANGED <<kind, params, requestId, call, outcome>>
  /\ UNCHANGED <<lifeVars, startVars, pureVars>>

(***************************************************************************)
(* The ListResources handler (server.ts 134-151).                          *)
(***************************************************************************)
\* return { resources }
ListResourcesResult(built) == [resources |-> built]

ListResourcesRequest(r) ==
  /\ CanReceive(r)
  /\ \E id \in RequestIds :
       /\ requestId' = [requestId EXCEPT ![r] = id]
       /\ logs' = [logs EXCEPT ![r] = <<LogInfo(id, "Listing available resources")>>]
  /\ kind' = [kind EXCEPT ![r] = "ListResources"]
  /\ pc' = [pc EXCEPT ![r] = "AwaitSetup"]
  /\ hist' = [hist EXCEPT ![r] = <<"Received">>]
  /\ UNCHANGED <<params, registry, setupCalls, call, outcome, result, thrown>>
  /\ UNCHANGED <<lifeVars, startVars, pureVars>>

ListResourcesReturn(r) ==
  /\ ~exited
  /\ kind[r] = "ListResources"
  /\ pc[r] = "AwaitSetup"
  /\ LET built == setupResources
     IN  /\ registry' = [registry EXCEPT ![r] = built]
         /\ setupCalls' = SetupCalled(r, setupCalls)
         /\ Finish(r, [pc |-> "Responded", result |-> ListResourcesResult(built),
                       thrown |-> NoError,
                       log |-> LogInfo(requestId[r],
                                 "Found " \o ToString(Len(built)) \o " resources")])
  /\ UNCHANGED <<kind, params, requestId, call, outcome>>
  /\ UNCHANGED <<lifeVars, startVars, pureVars>>

(***************************************************************************)
(* The ReadResource handler (server.ts 154-182).                           *)
(***************************************************************************)
\* throw new Error(`Resource not found: ${uri}`)
ResourceNotFoundError(uri) == NewError("Resource not found: " \o uri.val)

\* { requestId, timestamp: new Date().toISOString(), resourcePath: uri, accessType: 'read' }
ResourceContext(r, ts) ==
  [requestId |-> requestId[r], timestamp |-> ts,
   resourcePath |-> params[r].uri, accessType |-> "read"]

\* the end of the try block: log the success, return { contents }
ResourceReturn(uri, id, contents) ==
  [pc |-> "Responded", result |-> [contents |-> contents], thrown |-> NoError,
   log |-> LogInfo(id, "Resource read successfully: " \o uri.val)]

\* the catch block: log the error, throw error
ResourceCatch(uri, id, error) ==
  [pc |-> "Failed", result |-> NoResult, thrown |-> error,
   log |-> LogError(id, "Resource read failed: " \o uri.val, AsError(error))]

\* From the receipt of the request to `await setupResources()`.
ReadResourceRequest(r) ==
  /\ CanReceive(r)
  /\ \E uri \in ResourceUris, id \in RequestIds :
       /\ params' = [params EXCEPT ![r] =
                       [name |-> Undefined, arguments |-> Undefined, uri |-> uri]]
       /\ requestId' = [requestId EXCEPT ![r] = id]
       /\ logs' = [logs EXCEPT ![r] = <<LogInfo(id, "Reading resource: " \o uri.val)>>]
  /\ kind' = [kind EXCEPT ![r] = "ReadResource"]
  /\ pc' = [pc EXCEPT ![r] = "AwaitSetup"]
  /\ hist' = [hist EXCEPT ![r] = <<"Received">>]
  /\ UNCHANGED <<registry, setupCalls, call, outcome, result, thrown>>
  /\ UNCHANGED <<lifeVars, startVars, pureVars>>

\* setupResources() resolved: the lookup, and the call of the handler up to its await.
ReadResourceLookup(r) ==
  /\ ~exited
  /\ kind[r] = "ReadResource"
  /\ pc[r] = "AwaitSetup"
  /\ LET built == setupResources
         uri == params[r].uri
         i == FindResource(built, uri)
     IN  /\ registry' = [registry EXCEPT ![r] = built]
         /\ setupCalls' = SetupCalled(r, setupCalls)
         /\ IF i = 0
            THEN /\ Finish(r, ResourceCatch(uri, requestId[r], ResourceNotFoundError(uri)))
                 /\ UNCHANGED call
            ELSE /\ \E ts \in Timestamps :
                      call' = [call EXCEPT ![r] =
                                 [handler |-> built[i].handler,
                                  input |-> uri,
                                  context |-> ResourceContext(r, ts)]]
                 /\ pc' = [pc EXCEPT ![r] = "AwaitHandler"]
                 /\ hist' = [hist EXCEPT ![r] = Append(@, "Executed")]
                 /\ UNCHANGED <<result, thrown, logs>>
  /\ UNCHANGED <<kind, params, requestId, outcome>>
  /\ UNCHANGED <<lifeVars, startVars, pureVars>>

\* The awaited handler settled.
ReadResourceSettle(r) ==
  /\ ~exited
  /\ kind[r] = "ReadResource"
  /\ pc[r] = "AwaitHandler"
  /\ \E out \in ResourceOutcomes(registry[r][FindResource(registry[r], params[r].uri)]) :
       /\ outcome' = [outcome EXCEPT ![r] = out]
       /\ IF out.kind = "return"
          THEN Finish(r, ResourceReturn(params[r].uri, requestId[r], out.value))
          ELSE Finish(r, ResourceCatch(params[r].uri, requestId[r], out.error))
  /\ UNCHANGED <<kind, params, requestId, registry, setupCalls, call>>
  /\ UNCHANGED <<lifeVars, startVars, pureVars>>

(***************************************************************************)
(* The lifecycle handlers (server.ts 198-215).                             *)
(***************************************************************************)
ProcessInfo(message) == [level |-> "info", message |-> message]
ProcessError(message) == [level |-> "error", message |-> message]

\* a shutdown that exits with 0 whatever the close did
ShutdownExitCodeZero(closed) == 0

\* process.exit(0) after the close, process.exit(1) in the catch block
ShutdownExitCode(closed) == IF closed THEN 0 ELSE 1

\* A signal arrives: shutdown() runs up to `await this.server.close()`.
Signal(sig) ==
  /\ ~exited
  /\ installed
  /\ Len(shutdowns) < MaxSignals
  /\ shutdowns' = Append(shutdowns, [signal |-> sig, state |-> "closing"])
  /\ closeCalls' = closeCalls + 1
  /\ processLog' = Append(processLog, ProcessInfo("Shutting down MCP server..."))
  /\ UNCHANGED <<exited, exitCode>>
  /\ UNCHANGED <<reqVars, startVars, pureVars>>

\* The close settled: the outcome is logged and the process exits.
CloseSettle(i) ==
  /\ ~exited
  /\ i \in 1..Len(shutdowns)
  /\ shutdowns[i].state = "closing"
  /\ \E closed \in BOOLEAN :
       /\ shutdowns' = [shutdowns EXCEPT ![i].state = IF closed THEN "closed" ELSE "failed"]
       /\ processLog' = Append(processLog,
                          IF closed THEN ProcessInfo("MCP server shut down successfully")
                          ELSE ProcessError("Error during shutdown"))
       /\ exitCode' = ShutdownExitCode(closed)
       /\ exited' = TRUE
  /\ UNCHANGED closeCalls
  /\ UNCHANGED <<reqVars, startVars, pureVars>>

(***************************************************************************)
(* main() and MCPServer.start() (server.ts 220-261).                       *)
(***************************************************************************)
\* the configurations the environment may hold, well-formed or not
Configs ==
  [port : {3000, 70000}, host : {"localhost"}, logLevel : {"info", "verbose"},
   enableHealthCheck : BOOLEAN]

\* utils/config.ts: validateConfig() returns for a well-formed configuration and
\* throws for a malformed one
validateConfig(c) == c.port \in 1..65535 /\ c.logLevel \in {"error", "warn", "info", "debug"}

\* a main() that constructs the server before it validates the configuration
MainOutcomeConstructFirst(c) == [constructed |-> TRUE, failed |-> ~validateConfig(c)]

\* validateConfig(); const server = new MCPServer(); ... catch: process.exit(1)
MainOutcome(c) ==
  IF validateConfig(c) THEN [constructed |-> TRUE, failed |-> FALSE]
  ELSE [constructed |-> FALSE, failed |-> TRUE]

ConsoleError(message) == [level |-> "console.error", message |-> message]

\* a start() that starts the health checker whatever the configuration says
HealthCheckEnabledAlways(c) == TRUE

\* if (this.config.enableHealthCheck)
HealthCheckEnabled(c) == c.enableHealthCheck

\* process.exit(1) from a catch block of main() or start()
StartupFails(entry) ==
  /\ processLog' = Append(processLog, entry)
  /\ mainPc' = "failed"
  /\ exited' = TRUE
  /\ exitCode' = 1

\* this.server.connect(transport) is called
Connect ==
  /\ transport' = "connecting"
  /\ mainPc' = "AwaitConnect"

\* main() from its start to the first await of start()
Main ==
  /\ ~exited
  /\ mainPc = "main"
  /\ LET o == MainOutcome(config)
     IN  /\ installed' = o.constructed
         /\ IF o.failed
            THEN /\ StartupFails(ConsoleError("Failed to initialize MCP server:"))
                 /\ UNCHANGED <<health, transport>>
            ELSE /\ processLog' = Append(processLog, ProcessInfo("Starting MCP server..."))
                 /\ IF HealthCheckEnabled(config)
                    THEN /\ health' = "starting"
                         /\ mainPc' = "AwaitHealth"
                         /\ UNCHANGED transport
                    ELSE /\ Connect
                         /\ UNCHANGED health
                 /\ UNCHANGED <<exited, exitCode>>
  /\ UNCHANGED <<config, shutdowns, closeCalls>>
  /\ UNCHANGED <<reqVars, pureVars>>

\* await healthChecker.start() settled
HealthSettle ==
  /\ ~exited
  /\ mainPc = "AwaitHealth"
  /\ \E ok \in BOOLEAN :
       IF ok
       THEN /\ health' = "started"
            /\ processLog' = Append(processLog,
                 ProcessInfo("Health check endpoint available at http://" \o config.host
                             \o ":" \o ToString(config.port + 1) \o "/health"))
            /\ Connect
            /\ UNCHANGED <<exited, exitCode>>
       ELSE /\ health' = "failed"
            /\ StartupFails(ProcessError("Failed to start MCP server"))
            /\ UNCHANGED transport
  /\ UNCHANGED <<config, installed, shutdowns, closeCalls>>
  /\ UNCHANGED <<reqVars, pureVars>>

\* await this.server.connect(transport) settled
ConnectSettle ==
  /\ ~exited
  /\ mainPc = "AwaitConnect"
  /\ \E ok \in BOOLEAN :
       IF ok
       THEN /\ transport' = "connected"
            /\ processLog' = Append(processLog, ProcessInfo("MCP server started successfully"))
            /\ mainPc' = "started"
            /\ UNCHANGED <<exited, exitCode>>
       ELSE /\ transport' = "failed"
            /\ StartupFails(ProcessError("Failed to start MCP server"))
  /\ UNCHANGED <<config, installed, health, shutdowns, closeCalls>>
  /\ UNCHANGED <<reqVars, pureVars>>

\* The process before main() runs.
InitMain ==
  /\ InitServer
  /\ InitNoCall
  /\ mainPc = "main"
  /\ config \in Configs
  /\ installed = FALSE
  /\ health = "none"
  /\ transport = "none"

(***************************************************************************)
(* tools/text-processing.ts: the handler of the text-processing tool.  The *)
(* text is a sequence of one-character strings; a number with decimals is  *)
(* an integer count of hundredths or thousandths.                          *)
(***************************************************************************)
LowerCase == <<"a", "b", "c", "d", "e", "f", "g", "h", "i", "j", "k", "l", "m", "n", "o", "p", "q", "r", "s", "t", "u", "v", "w", "x", "y", "z">>
UpperCase == <<"A", "B", "C", "D", "E", "F", "G", "H", "I", "J", "K", "L", "M", "N", "O", "P", "Q", "R", "S", "T", "U", "V", "W", "X", "Y", "Z">>

IndexIn(letters, c) ==
  IF \E i \in 1..Len(letters) : letters[i] = c
  THEN CHOOSE i \in 1..Len(letters) : letters[i] = c
  ELSE 0

\* String.prototype.toUpperCase / toLowerCase
toUpperCase(text) ==
  [i \in 1..Len(text) |->
     IF IndexIn(LowerCase, text[i]) = 0 THEN text[i] ELSE UpperCase[IndexIn(LowerCase, text[i])]]
toLowerCase(text) ==
  [i \in 1..Len(text) |->
     IF IndexIn(UpperCase, text[i]) = 0 THEN text[i] ELSE LowerCase[IndexIn(UpperCase, text[i])]]

\* text.split('').reverse().join('')
Reverse(text) == [i \in 1..Len(text) |-> text[Len(text) + 1 - i]]

\* String(value) of a sequence of characters
RECURSIVE Concat(_)
Concat(chars) == IF chars = <<>> THEN "" ELSE chars[1] \o Concat(Tail(chars))

\* String.prototype.split on a class of separator characters: the pieces
\* between one separator and the next
RECURSIVE Split(_, _, _)
Split(text, separators, current) ==
  IF text = <<>> THEN <<current>>
  ELSE IF text[1] \in separators THEN <<current>> \o Split(Tail(text), separators, <<>>)
  ELSE Split(Tail(text), separators, Append(current, text[1]))

NotEmpty(piece) == piece # <<>>
NotBlank(piece) == Trim(piece) # <<>>

\* Math.round(numerator / denominator * scale), denominator > 0
RoundScaled(numerator, denominator, scale) ==
  (2 * scale * numerator + denominator) \div (2 * denominator)

\* the decimal digits of a fraction part, without the trailing zeros
RECURSIVE FractionDigits(_, _)
FractionDigits(part, scale) ==
  IF part = 0 THEN ""
  ELSE ToString(part \div (scale \div 10)) \o FractionDigits(part % (scale \div 10), scale \div 10)

\* JSON.stringify of a number held as a count of 1/scale
FormatScaled(n, scale) ==
  LET a == IF n < 0 THEN 0 - n ELSE n
  IN  (IF n < 0 THEN "-" ELSE "") \o ToString(a \div scale)
      \o (IF a % scale = 0 THEN "" ELSE "." \o FractionDigits(a % scale, scale))

SentenceEnds == {".", "!", "?"}

\* countCharacters(text, options)
countCharacters(text) ==
  LET total == Len(text)
      withoutWhitespace == Len(Strip(text, Whitespace))
  IN  [total |-> total, withoutWhitespace |-> withoutWhitespace,
       whitespace |-> total - withoutWhitespace]

\* countWords(text); a text without line breaks is one paragraph at most
countWords(text) ==
  LET words == Len(SelectSeq(Split(Trim(text), Whitespace, <<>>), NotEmpty))
      sentences == Len(SelectSeq(Split(text, SentenceEnds, <<>>), NotBlank))
      paragraphs == IF NotBlank(text) THEN 1 ELSE 0
  IN  [words |-> words, sentences |-> sentences, paragraphs |-> paragraphs,
       averageWordsPerSentence |->
         IF sentences > 0 THEN RoundScaled(words, sentences, 100) ELSE 0]

positiveWords ==
  { <<"g", "o", "o", "d">>,
    <<"g", "r", "e", "a", "t">>,
    <<"e", "x", "c", "e", "l", "l", "e", "n", "t">>,
    <<"a", "m", "a", "z", "i", "n", "g">>,
    <<"w", "o", "n", "d", "e", "r", "f", "u", "l">>,
    <<"f", "a", "n", "t", "a", "s", "t", "i", "c">>,
    <<"l", "o", "v", "e">>,
    <<"l", "i", "k", "e">>,
    <<"h", "a", "p", "p", "y">>,
    <<"j", "o", "y">> }
negativeWords ==
  { <<"b", "a", "d">>,
    <<"t", "e", "r", "r", "i", "b", "l", "e">>,
    <<"a", "w", "f", "u", "l">>,
    <<"h", "o", "r", "r", "i", "b", "l", "e">>,
    <<"h", "a", "t", "e">>,
    <<"d", "i", "s", "l", "i", "k", "e">>,
    <<"s", "a", "d">>,
    <<"a", "n", "g", "r", "y">>,
    <<"f", "r", "u", "s", "t", "r", "a", "t", "e", "d">>,
    <<"d", "i", "s", "a", "p", "p", "o", "i", "n", "t", "e", "d">> }

IsPositive(word) == word \in positiveWords
IsNegative(word) == word \in negativeWords

\* analyzeSentiment(text): the score is difference / totalSentimentWords; the
\* result holds score and confidence rounded to thousandths
analyzeSentiment(text) ==
  LET words == Split(toLowerCase(text), Whitespace, <<>>)
      positiveCount == Len(SelectSeq(words, IsPositive))
      negativeCount == Len(SelectSeq(words, IsNegative))
      totalSentimentWords == positiveCount + negativeCount
      difference == positiveCount - negativeCount
      magnitude == IF difference < 0 THEN 0 - difference ELSE difference
  IN  [sentiment |-> IF 10 * difference > totalSentimentWords THEN "positive"
                     ELSE IF 10 * difference < 0 - totalSentimentWords THEN "negative"
                     ELSE "neutral",
       score |-> IF totalSentimentWords > 0
                 THEN RoundScaled(difference, totalSentimentWords, 1000)
                 ELSE 0,
       confidence |-> IF totalSentimentWords = 0 THEN 0
                      ELSE IF 2 * magnitude >= totalSentimentWords THEN 1000
                      ELSE RoundScaled(2 * magnitude, totalSentimentWords, 1000)]

\* JSON.stringify(result, null, 2) of the three result objects
StringifyCount(c) ==
  "{\n  \"total\": " \o ToString(c.total)
  \o ",\n  \"withoutWhitespace\": " \o ToString(c.withoutWhitespace)
  \o ",\n  \"whitespace\": " \o ToString(c.whitespace) \o "\n}"
StringifyWords(w) ==
  "{\n  \"words\": " \o ToString(w.words)
  \o ",\n  \"sentences\": " \o ToString(w.sentences)
  \o ",\n  \"paragraphs\": " \o ToString(w.paragraphs)
  \o ",\n  \"averageWordsPerSentence\": " \o FormatScaled(w.averageWordsPerSentence, 100)
  \o "\n}"
StringifySentiment(a) ==
  "{\n  \"sentiment\": \"" \o a.sentiment
  \o "\",\n  \"score\": " \o FormatScaled(a.score, 1000)
  \o ",\n  \"confidence\": " \o FormatScaled(a.confidence, 1000) \o "\n}"

NotAFunction(method) == [class |-> "TypeError", message |-> "text." \o method \o " is not a function"]
NoLength(text) ==
  [class |-> "TypeError",
   message |-> "Cannot read properties of " \o text.val \o " (reading 'length')"]

\* text.length is read: a TypeError for undefined and null, a value otherwise
HasLength(text) == text.type # "undefined" /\ text # Null

\* the body of the try block after the first log entry: the switch on the
\* operation and the rendering of the result
Process(operation, text) ==
  IF operation.type = "string"
     /\ operation.val \in {"count", "uppercase", "lowercase", "reverse", "wordcount", "sentiment"}
  THEN IF text.type # "string"
       THEN Threw(NotAFunction(CASE operation.val = "count" -> "replace"
                                 [] operation.val = "uppercase" -> "toUpperCase"
                                 [] operation.val = "lowercase" -> "toLowerCase"
                                 [] operation.val = "reverse" -> "split"
                                 [] operation.val = "wordcount" -> "trim"
                                 [] operation.val = "sentiment" -> "toLowerCase"))
       ELSE Returned(CASE operation.val = "count" -> StringifyCount(countCharacters(text.chars))
                       [] operation.val = "uppercase" -> Concat(toUpperCase(text.chars))
                       [] operation.val = "lowercase" -> Concat(toLowerCase(text.chars))
                       [] operation.val = "reverse" -> Concat(Reverse(text.chars))
                       [] operation.val = "wordcount" -> StringifyWords(countWords(text.chars))
                       [] operation.val = "sentiment" ->
                            StringifySentiment(analyzeSentiment(text.chars)))
  ELSE Threw(NewError("Unsupported operation: " \o operation.val))

\* a handler whose catch block throws the error on instead of returning a result
textProcessingToolHandlerRethrows(args) ==
  IF ~HasLength(args.text) THEN Threw(NoLength(args.text))
  ELSE LET attempt == Process(args.operation, args.text)
       IN  IF attempt.threw THEN attempt
           ELSE Returned([content |-> <<[type |-> "text", text |-> attempt.value]>>])

\* textProcessingTool.handler(args, context): the try block reads text.length
\* for its first log entry, and the catch block reads it again for its own
textProcessingToolHandler(args) ==
  IF ~HasLength(args.text) THEN Threw(NoLength(args.text))
  ELSE LET attempt == Process(args.operation, args.text)
       IN  IF attempt.threw
           THEN Returned([content |-> <<[type |-> "text",
                                         text |-> "Error: " \o attempt.error.message]>>,
                          isError |-> TRUE])
           ELSE Returned([content |-> <<[type |-> "text", text |-> attempt.value]>>])

(***************************************************************************)
(* The utility functions (utils/errors.ts, utils/validation.ts), each      *)
(* called once on an argument drawn from a bounded set of inputs.          *)
(***************************************************************************)
\* the sequences over an alphabet up to a length
BoundedSeq(alphabet, n) == UNION {[1..k -> alphabet] : k \in 0..n}

ErrorMessages == {"Test error", "Invalid input"}
DetailsValues == {Undefined, [field |-> "name"]}
ToolNames == {"calculate", "text-processing"}
ResourceNames == {"resource://test", "config://server"}

TaxonomyErrors ==
  {MCPError(m) : m \in ErrorMessages}
  \cup {ValidationError(m, d) : m \in ErrorMessages, d \in DetailsValues}
  \cup {ToolExecutionError(m, t) : m \in ErrorMessages, t \in ToolNames}
  \cup {ResourceAccessError(m, u) : m \in ErrorMessages, u \in ResourceNames}

\* errors that are no members of the taxonomy
GenericErrors ==
  {NewError("Generic error"), [class |-> "TypeError", message |-> "text is undefined"]}

\* values that are thrown or caught without being errors
OtherValues ==
  {StringValue("String error"), StringValue(""), Null, ObjectValue("{unknown}"),
   Undefined, Number(42)}

\* inputs of the schema { name, age }, well-formed or not
TestInputs ==
  [name : {StringValue("John"), StringValue(""), Number(7), Undefined},
   age : {Number(30), Number(0), Number(-1), StringValue("30"), Undefined}]

StringAlphabet == {"a", " ", "<", "\"", ";"}
StringExamples ==
  { <<"<", "s", "c", "r", "i", "p", "t", ">", "a", "l", "e", "r", "t", "(", "\"", "x", "s", "s", "\"", ")", "<", "/", "s", "c", "r", "i", "p", "t", ">">>,
    <<" ", " ", "h", "e", "l", "l", "o", " ", "w", "o", "r", "l", "d", " ", " ">>,
    <<"t", "e", "s", "t", " ", "\"", "q", "u", "o", "t", "e", "d", "\"", " ", "c", "o", "n", "t", "e", "n", "t">> }
Strings == BoundedSeq(StringAlphabet, MaxStringLen) \cup StringExamples

PathAlphabet == {"a", ".", "/", ";"}
PathExamples ==
  { <<"s", "r", "c", "/", "f", "i", "l", "e", ".", "t", "s">>,
    <<"d", "o", "c", "s", "/", "r", "e", "a", "d", "m", "e", ".", "m", "d">>,
    <<"f", "i", "l", "e", ";", "n", "a", "m", "e", ".", "t", "x", "t">>,
    <<"s", "r", "c", "/", ".", ".", "/", ".", ".", "/", ".", ".", "/", "f", "i", "l", "e", ".", "t", "x", "t">>,
    <<"/", "e", "t", "c", "/", "p", "a", "s", "s", "w", "d">> }
Paths == BoundedSeq(PathAlphabet, MaxPathLen) \cup PathExamples

\* a string argument of the text-processing handler
TextValue(chars) == [type |-> "string", chars |-> chars]
TextAlphabet == {"a", "B", " ", "."}
TextExamples ==
  { <<"g", "o", "o", "d", " ", "d", "a", "y">>,
    <<"I", " ", "h", "a", "t", "e", " ", "i", "t", ".", " ", "B", "a", "d", " ", "b", "a", "d", "!">>,
    <<"l", "o", "v", "e", " ", "L", "o", "v", "e", " ", "s", "a", "d">> }
Texts == BoundedSeq(TextAlphabet, MaxTextLen) \cup TextExamples
Operations ==
  {StringValue(o) : o \in {"count", "uppercase", "lowercase", "reverse", "wordcount",
                           "sentiment", "rot13"}}
  \cup {Undefined}
\* args || {}: the arguments of a request as the handler destructures them
HandlerArgs ==
  [operation : Operations,
   text : {TextValue(t) : t \in Texts} \cup {Undefined, Null, Number(5)}]

\* The process is running and one call of one utility function is about to
\* be made.
InitUtils ==
  /\ InitServer
  /\ mainPc = "started"
  /\ config = RunningConfig
  /\ installed = TRUE
  /\ health = "none"
  /\ transport = "connected"
  /\ ret = NotApplied
  /\ \/ fn = "MCPError" /\ arg \in [message : ErrorMessages]
     \/ fn = "ValidationError" /\ arg \in [message : ErrorMessages, details : DetailsValues]
     \/ fn = "ToolExecutionError" /\ arg \in [message : ErrorMessages, toolName : ToolNames]
     \/ fn = "ResourceAccessError"
        /\ arg \in [message : ErrorMessages, resourceUri : ResourceNames]
     \/ fn = "createErrorResponse"
        /\ arg \in [error : TaxonomyErrors \cup GenericErrors, requestId : RequestIds]
     \/ fn = "getErrorMessage" /\ arg \in TaxonomyErrors \cup GenericErrors \cup OtherValues
     \/ fn = "validateInput" /\ arg \in TestInputs
     \/ fn = "sanitizeString" /\ arg \in Strings
     \/ fn = "validateFilePath" /\ arg \in Paths
     \/ fn = "textProcessingTool.handler" /\ arg \in HandlerArgs

\* the call under way returns or throws
Completes(completion) ==
  /\ ret = NotApplied
  /\ ret' = completion
  /\ UNCHANGED <<fn, arg>>
  /\ UNCHANGED <<reqVars, lifeVars, startVars>>

CallMCPError ==
  /\ fn = "MCPError"
  /\ Completes(Returned(MCPError(arg.message)))

CallValidationError ==
  /\ fn = "ValidationError"
  /\ Completes(Returned(ValidationError(arg.message, arg.details)))

CallToolExecutionError ==
  /\ fn = "ToolExecutionError"
  /\ Completes(Returned(ToolExecutionError(arg.message, arg.toolName)))

CallResourceAccessError ==
  /\ fn = "ResourceAccessError"
  /\ Completes(Returned(ResourceAccessError(arg.message, arg.resourceUri)))

CallCreateErrorResponse ==
  /\ fn = "createErrorResponse"
  /\ \E now \in Timestamps :
       Completes(createErrorResponse(arg.error, arg.requestId, now))

CallGetErrorMessage ==
  /\ fn = "getErrorMessage"
  /\ Completes(Returned(getErrorMessage(arg)))

CallValidateInput ==
  /\ fn = "validateInput"
  /\ Completes(Returned(validateInput(testSchema, arg)))

CallSanitizeString ==
  /\ fn = "sanitizeString"
  /\ Completes(Returned(sanitizeString(arg)))

CallValidateFilePath ==
  /\ fn = "validateFilePath"
  /\ Completes(validateFilePath(arg))

CallTextProcessingHandler ==
  /\ fn = "textProcessingTool.handler"
  /\ Completes(textProcessingToolHandler(arg))

(***************************************************************************)
(* Specifications.  Spec is the whole server.  SpecDispatch is the server  *)
(* while no signal arrives.  SpecLifecycle is the shutdown sequence with   *)
(* up to MaxInFlight CallTool requests in flight.                          *)
(***************************************************************************)
MaxInFlight == 1

NextDispatch ==
  \/ \E r \in Req : ListToolsRequest(r)
  \/ \E r \in Req : ListToolsReturn(r)
  \/ \E r \in Req : CallToolRequest(r)
  \/ \E r \in Req : CallToolLookup(r)
  \/ \E r \in Req : CallToolSettle(r)
  \/ \E r \in Req : ListResourcesRequest(r)
  \/ \E r \in Req : ListResourcesReturn(r)
  \/ \E r \in Req : ReadResourceRequest(r)
  \/ \E r \in Req : ReadResourceLookup(r)
  \/ \E r \in Req : ReadResourceSettle(r)

NextShutdown ==
  \/ \E sig \in SIGNALS : Signal(sig)
  \/ \E i \in 1..MaxSignals : CloseSettle(i)

NextLifecycle ==
  \/ \E r \in 1..MaxInFlight : CallToolRequest(r)
  \/ \E r \in 1..MaxInFlight : CallToolLookup(r)
  \/ \E r \in 1..MaxInFlight : CallToolSettle(r)
  \/ NextShutdown

NextStartup ==
  \/ Main
  \/ HealthSettle
  \/ ConnectSettle
  \/ NextLifecycle

NextUtils ==
  \/ CallMCPError
  \/ CallValidationError
  \/ CallToolExecutionError
  \/ CallResourceAccessError
  \/ CallCreateErrorResponse
  \/ CallGetErrorMessage
  \/ CallValidateInput
  \/ CallSanitizeString
  \/ CallValidateFilePath
  \/ CallTextProcessingHandler

Next == NextDispatch \/ NextShutdown

Spec == Init /\ [][Next]_vars
SpecDispatch == Init /\ [][NextDispatch]_vars
SpecLifecycle == Init /\ [][NextLifecycle]_vars
SpecStartup == InitMain /\ [][NextStartup]_vars
SpecUtils == InitUtils /\ [][NextUtils]_vars

\* What the scheduling of the code grants: an awaited registry rebuild, an
\* awaited handler and an awaited close settle; the arrival of requests and
\* of signals is up to the environment.
FairLifecycle ==
  /\ \A r \in 1..MaxInFlight : WF_vars(CallToolLookup(r)) /\ WF_vars(CallToolSettle(r))
  /\ \A i \in 1..MaxSignals : WF_vars(CloseSettle(i))
SpecLifecycleFair == Init /\ [][NextLifecycle]_vars /\ FairLifecycle

(***************************************************************************)
(* Properties.                                                             *)
(***************************************************************************)
Last(seq) == seq[Len(seq)]

\* the name is that of an entry of the tool registry
RegisteredTool(name) ==
  \E i \in 1..Len(setupTools) : name.type = "string" /\ setupTools[i].name = name.val

IsPrefix(a, b) == Len(a) <= Len(b) /\ \A i \in 1..Len(a) : a[i] = b[i]

DispatchStates == <<"Received", "Validated", "Executed", "Responded">>

(* C1: a CallTool request whose name is that of no entry of the registry   *)
(* setupTools() returned never has a handler invoked and never yields a    *)
(* result; once setupTools() has returned its registry, the request has    *)
(* failed with the thrown error "Tool not found: <name>".                  *)
C1_UnregisteredToolFails ==
  \A r \in Req :
    (kind[r] = "CallTool" /\ ~RegisteredTool(params[r].name)) =>
      /\ call[r] = NoCall
      /\ outcome[r] = NoOutcome
      /\ pc[r] # "Responded"
      /\ result[r] = NoResult
      /\ registry[r] # <<>> =>
           /\ pc[r] = "Failed"
           /\ thrown[r] = [class |-> "Error",
                           message |-> "Tool not found: " \o params[r].name.val]

C1_Witness ==
  \E r \in Req :
    /\ kind[r] = "CallTool"
    /\ params[r].name = StringValue("no-such-tool")
    /\ registry[r] = setupTools
    /\ pc[r] = "Failed"

(* C2, as claimed: a CallTool request whose outer parameters fail the      *)
(* validation fails with a ValidationError, code VALIDATION_ERROR.         *)
C2_ValidationErrorEmitted ==
  \A r \in Req :
    (kind[r] = "CallTool" /\ ~validateInput(CallToolRequestSchemaParams, params[r]).success) =>
      /\ pc[r] = "Failed"
      /\ thrown[r].class = "ValidationError"
      /\ ErrorCode(thrown[r]) = "VALIDATION_ERROR"

(* C2, amended: a CallTool request whose outer parameters fail the         *)
(* validation has failed as soon as it is received, with a plain Error     *)
(* (classified INTERNAL_ERROR) whose message is "Invalid tool request: "   *)
(* followed by the messages of all field errors joined by ", "; the        *)
(* registry is not rebuilt and no handler is invoked.                      *)
C2_ValidationFailureThrowsError ==
  \A r \in Req :
    (kind[r] = "CallTool" /\ ~validateInput(CallToolRequestSchemaParams, params[r]).success) =>
      /\ pc[r] = "Failed"
      /\ hist[r] = <<"Received", "Failed">>
      /\ thrown[r].class = "Error"
      /\ ErrorCode(thrown[r]) = "INTERNAL_ERROR"
      /\ thrown[r].message =
           "Invalid tool request: " \o Join(Messages(validateInput(CallToolRequestSchemaParams, params[r]).errors), ", ")
      /\ (params[r].name.type = "number" /\ params[r].arguments.type = "string") =>
           thrown[r].message =
             "Invalid tool request: Expected string, received number, Expected object, received string"
      /\ registry[r] = <<>>
      /\ call[r] = NoCall
      /\ result[r] = NoResult

C2_Witness ==
  \E r \in Req :
    /\ kind[r] = "CallTool"
    /\ Len(validateInput(CallToolRequestSchemaParams, params[r]).errors) = 2
    /\ pc[r] = "Failed"

(* C3: a CallTool request goes through Received, Validated, Executed,      *)
(* Responded in this order, Failed being the only other exit of a          *)
(* non-terminal state; its handler is invoked only when the validation     *)
(* succeeded and the lookup found the tool, and it responds only after the *)
(* awaited handler returned.                                               *)
C3_DispatchOrder ==
  \A r \in Req :
    kind[r] = "CallTool" =>
      /\ \/ IsPrefix(hist[r], DispatchStates)
         \/ /\ Last(hist[r]) = "Failed"
            /\ Len(hist[r]) \in 2..4
            /\ IsPrefix(SubSeq(hist[r], 1, Len(hist[r]) - 1), DispatchStates)
      /\ hist[r] # <<>> /\ hist[r][1] = "Received"
      /\ call[r] # NoCall <=> (\E i \in 1..Len(hist[r]) : hist[r][i] = "Executed")
      /\ call[r] # NoCall =>
           /\ validateInput(CallToolRequestSchemaParams, params[r]).success
           /\ RegisteredTool(params[r].name)
           /\ call[r].handler = "handler:" \o params[r].name.val
      /\ pc[r] = "AwaitHandler" <=> Last(hist[r]) = "Executed"
      /\ pc[r] = "Responded" <=> Last(hist[r]) = "Responded"
      /\ pc[r] = "Failed" <=> Last(hist[r]) = "Failed"
      /\ pc[r] = "Responded" => (call[r] # NoCall /\ outcome[r].kind = "return")

C3_Witness ==
  \E r \in Req :
    /\ kind[r] = "CallTool"
    /\ hist[r] = DispatchStates
    /\ pc[r] = "Responded"

(* C4: when the handler of a CallTool request returns a result that        *)
(* carries isError: true, the request ends Responded: the dispatcher       *)
(* returns exactly that result and throws nothing.                         *)
C4_SoftFailurePassesThrough ==
  \A r \in Req :
    (kind[r] = "CallTool" /\ outcome[r].kind = "return" /\ outcome[r].value.isError) =>
      /\ pc[r] = "Responded"
      /\ Last(hist[r]) = "Responded"
      /\ result[r] = outcome[r].value
      /\ result[r].isError
      /\ thrown[r] = NoError

C4_Witness ==
  \E r \in Req :
    /\ kind[r] = "CallTool"
    /\ outcome[r].kind = "return"
    /\ outcome[r].value.isError
    /\ pc[r] = "Responded"

C6_ListingOmitsHandler ==
  \A r \in Req :
    /\ (kind[r] = "ListTools" /\ pc[r] = "Responded") =>
         /\ Len(result[r].tools) = Len(setupTools)
         /\ \A i \in 1..Len(setupTools) :
              /\ result[r].tools[i].name = setupTools[i].name
              /\ DOMAIN result[r].tools[i] = {"name", "description", "inputSchema"}
    /\ (kind[r] = "ListResources" /\ pc[r] = "Responded") =>
         /\ Len(result[r].resources) = Len(setupResources)
         /\ \A i \in 1..Len(setupResources) :
              /\ result[r].resources[i].uri = setupResources[i].uri
              /\ "handler" \notin DOMAIN result[r].resources[i]

(* C7: whatever the interleaving of the requests in flight, the context    *)
(* passed to the handler of a request carries the requestId created at the *)
(* receipt of that request, and so does every log entry of the request;    *)
(* it is never the differing id of another request.                        *)
C7_ContextIsOwn ==
  \A r \in Req :
    /\ \A i \in 1..Len(logs[r]) : logs[r][i].requestId = requestId[r]
    /\ call[r] # NoCall =>
         /\ call[r].context.requestId = requestId[r]
         /\ \A q \in Req :
              (q # r /\ kind[q] # "none" /\ requestId[q] # requestId[r]) =>
                call[r].context.requestId # requestId[q]
         /\ kind[r] = "ReadResource" =>
              (call[r].context.resourcePath = params[r].uri
               /\ call[r].context.accessType = "read")

C7_Witness ==
  \E r, q \in Req :
    /\ r < q
    /\ kind[r] = "CallTool" /\ pc[r] = "AwaitHandler"
    /\ kind[q] = "CallTool" /\ pc[q] = "AwaitHandler"
    /\ requestId[r] # requestId[q]
    /\ call[r].context.timestamp # call[q].context.timestamp

(* C9: once the process has exited after a termination signal, the close   *)
(* of the transport was attempted, its outcome was logged, and the exit    *)
(* code is 0 when the close completed and 1 when it raised an error: never *)
(* 0 after a failed close.                                                 *)
C9_ExitCodeFollowsClose ==
  /\ closeCalls = Len(shutdowns)
  /\ exited =>
       /\ closeCalls >= 1
       /\ \E i \in 1..Len(shutdowns) :
            /\ shutdowns[i].state \in {"closed", "failed"}
            /\ exitCode = (IF shutdowns[i].state = "closed" THEN 0 ELSE 1)
       /\ exitCode \in {0, 1}
       /\ exitCode = 0 => \A i \in 1..Len(shutdowns) : shutdowns[i].state # "failed"
       /\ Last(processLog) =
            (IF exitCode = 0 THEN ProcessInfo("MCP server shut down successfully")
             ELSE ProcessError("Error during shutdown"))
  /\ ~exited => \A i \in 1..Len(shutdowns) : shutdowns[i].state = "closing"

C9_Witness ==
  /\ exited
  /\ exitCode = 1
  /\ \E i \in 1..Len(shutdowns) :
       shutdowns[i].signal = "SIGTERM" /\ shutdowns[i].state = "failed"

(* C10, as claimed: a request whose handler has begun executing when a     *)
(* termination signal arrives is not cut off by the shutdown: the process  *)
(* does not exit while the request still awaits its handler.               *)
C10_InFlightRequestCompletes ==
  exited => \A r \in Req : pc[r] # "AwaitHandler"

(* C11: the configuration is validated before the server is constructed:   *)
(* once main() has run on a configuration validateConfig() rejects, no      *)
(* MCPServer is constructed, no request or signal handler is installed, no  *)
(* health checker is started, no transport connection is attempted, and     *)
(* the process has exited with code 1.                                      *)
C11_InvalidConfigStopsBeforeConstruction ==
  /\ installed => validateConfig(config)
  /\ (mainPc # "main" /\ ~validateConfig(config)) =>
       /\ mainPc = "failed"
       /\ ~installed
       /\ health = "none"
       /\ transport = "none"
       /\ shutdowns = <<>>
       /\ \A r \in Req : kind[r] = "none"
       /\ exited
       /\ exitCode = 1

C11_Witness ==
  /\ ~validateConfig(config)
  /\ config.enableHealthCheck
  /\ mainPc = "failed"
  /\ exited
  /\ exitCode = 1

(* C12, as claimed: every ListTools and every CallTool request that has    *)
(* ended has called setupTools() once.                                     *)
C12_EveryRequestBuildsRegistry ==
  \A r \in Req :
    (kind[r] \in {"ListTools", "CallTool"} /\ pc[r] \in {"Responded", "Failed"}) =>
      setupCalls[r] = 1

(* C12, amended: registries are never cached across requests.  A request   *)
(* that has gone past its `await setupTools()` / `await setupResources()`  *)
(* has called the collaborator exactly once, whatever the other requests   *)
(* did; every ListTools, ListResources and ReadResource request and every  *)
(* CallTool request that passed validation does so before it ends; a       *)
(* CallTool request that failed validation never calls it; and the handler *)
(* a request invokes is the one of the entry of its own registry.          *)
C12_RegistryBuiltPerRequest ==
  \A r \in Req :
    /\ setupCalls[r] \in {0, 1}
    /\ (setupCalls[r] = 1) <=>
         /\ pc[r] \notin {"Idle", "AwaitSetup"}
         /\ ~(kind[r] = "CallTool" /\ hist[r] = <<"Received", "Failed">>)
    /\ (setupCalls[r] = 0) <=> (registry[r] = <<>>)
    /\ (kind[r] \in {"ListTools", "ListResources", "ReadResource"} /\ pc[r] \in {"Responded", "Failed"})
         => setupCalls[r] = 1
    /\ (kind[r] = "CallTool" /\ call[r] # NoCall) =>
         /\ registry[r] = setupTools
         /\ call[r].handler = registry[r][FindTool(registry[r], params[r].name)].handler
    /\ (kind[r] = "ReadResource" /\ call[r] # NoCall) =>
         /\ registry[r] = setupResources
         /\ call[r].handler = registry[r][FindResource(registry[r], params[r].uri)].handler

\* a CallTool request that failed validation without building a registry,
\* then a CallTool request that built its own and called a handler of it
C12_Witness ==
  /\ kind[1] = "CallTool"
  /\ pc[1] = "Failed"
  /\ setupCalls[1] = 0
  /\ kind[2] = "CallTool"
  /\ setupCalls[2] = 1
  /\ call[2] # NoCall

\* the uri is that of an entry of the resource registry
RegisteredResource(uri) == \E i \in 1..Len(setupResources) : setupResources[i].uri = uri.val

(* C13: a ReadResource request invokes the handler of the registry entry   *)
(* whose uri equals the requested uri, with the uri and a context whose    *)
(* resourcePath is the uri and whose accessType is 'read', and its         *)
(* response is { contents } holding exactly what that handler returned;    *)
(* when no entry has the uri, the request fails with a thrown 'Resource    *)
(* not found' error and no resource handler is invoked.                    *)
C13_ReadResourceUsesMatchedEntry ==
  \A r \in Req :
    kind[r] = "ReadResource" =>
      /\ call[r] # NoCall =>
           /\ \E i \in 1..Len(setupResources) :
                /\ setupResources[i].uri = params[r].uri.val
                /\ call[r].handler = setupResources[i].handler
           /\ call[r].input = params[r].uri
           /\ call[r].context.resourcePath = params[r].uri
           /\ call[r].context.accessType = "read"
           /\ call[r].context.requestId = requestId[r]
      /\ pc[r] = "Responded" =>
           /\ call[r] # NoCall
           /\ outcome[r].kind = "return"
           /\ result[r] = [contents |-> outcome[r].value]
           /\ outcome[r].value.uri = params[r].uri.val
      /\ (~RegisteredResource(params[r].uri) /\ pc[r] # "AwaitSetup") =>
           /\ pc[r] = "Failed"
           /\ thrown[r] = NewError("Resource not found: " \o params[r].uri.val)
           /\ call[r] = NoCall
           /\ outcome[r] = NoOutcome
           /\ result[r] = NoResult

\* one read answered with the contents of the second registry entry, one read
\* of an unregistered uri failed
C13_Witness ==
  /\ kind[1] = "ReadResource"
  /\ params[1].uri.val = "docs://readme"
  /\ pc[1] = "Responded"
  /\ kind[2] = "ReadResource"
  /\ params[2].uri.val = "missing://resource"
  /\ pc[2] = "Failed"

\* the closed set of error codes of section 4.2
ErrorCodes ==
  {"MCP_ERROR", "VALIDATION_ERROR", "TOOL_EXECUTION_ERROR", "RESOURCE_ACCESS_ERROR",
   "INTERNAL_ERROR"}

(* C14: every error of the taxonomy carries the fixed code and statusCode  *)
(* of its kind: MCPError MCP_ERROR/500, ValidationError                    *)
(* VALIDATION_ERROR/400 with the details it was given, ToolExecutionError  *)
(* TOOL_EXECUTION_ERROR/500 with details {toolName}, ResourceAccessError   *)
(* RESOURCE_ACCESS_ERROR/500 with details {resourceUri}; the code is one   *)
(* of the closed set of codes and the message is the one given.            *)
C14_TaxonomyCodesFixed ==
  (fn \in {"MCPError", "ValidationError", "ToolExecutionError", "ResourceAccessError"}
   /\ ret # NotApplied) =>
    /\ ~ret.threw
    /\ ret.value.message = arg.message
    /\ ret.value.code \in ErrorCodes
    /\ fn = "MCPError" =>
         /\ ret.value.code = "MCP_ERROR"
         /\ ret.value.statusCode = 500
         /\ ret.value.name = "MCPError"
    /\ fn = "ValidationError" =>
         /\ ret.value.code = "VALIDATION_ERROR"
         /\ ret.value.statusCode = 400
         /\ ret.value.details = arg.details
    /\ fn = "ToolExecutionError" =>
         /\ ret.value.code = "TOOL_EXECUTION_ERROR"
         /\ ret.value.statusCode = 500
         /\ ret.value.details = [toolName |-> arg.toolName]
    /\ fn = "ResourceAccessError" =>
         /\ ret.value.code = "RESOURCE_ACCESS_ERROR"
         /\ ret.value.statusCode = 500
         /\ ret.value.details = [resourceUri |-> arg.resourceUri]

C14_Witness ==
  /\ fn = "ValidationError"
  /\ arg = [message |-> "Invalid input", details |-> [field |-> "name"]]
  /\ ret # NotApplied
  /\ ret.value.statusCode = 400

(* C15: createErrorResponse(error, requestId) returns an envelope          *)
(* { error: { code, message, details, timestamp } }: for an error of the   *)
(* taxonomy code, message and details are those of the error; for any      *)
(* other error the code is INTERNAL_ERROR and details holds a stack; a     *)
(* timestamp is always present.                                            *)
C15_EnvelopeOfError ==
  (fn = "createErrorResponse" /\ ret # NotApplied) =>
    /\ ~ret.threw
    /\ DOMAIN ret.value = {"error"}
    /\ DOMAIN ret.value.error = {"code", "message", "details", "timestamp"}
    /\ ret.value.error.timestamp \in Timestamps
    /\ ret.value.error.message = arg.error.message
    /\ ret.value.error.code \in ErrorCodes
    /\ IF arg.error \in TaxonomyErrors
       THEN /\ ret.value.error.code = arg.error.code
            /\ ret.value.error.details = arg.error.details
       ELSE /\ ret.value.error.code = "INTERNAL_ERROR"
            /\ "stack" \in DOMAIN ret.value.error.details

C15_Witness ==
  /\ fn = "createErrorResponse"
  /\ arg.error = NewError("Generic error")
  /\ ret # NotApplied
  /\ ret.value.error.code = "INTERNAL_ERROR"

C17_GetErrorMessageTotal ==
  (fn = "getErrorMessage" /\ ret # NotApplied) =>
    /\ ~ret.threw
    /\ arg \in TaxonomyErrors \cup GenericErrors => ret.value = arg.message
    /\ arg \in OtherValues =>
         ret.value = (IF arg.type = "string" THEN arg.val ELSE "Unknown error occurred")

C17_Witness ==
  /\ fn = "getErrorMessage"
  /\ arg = Null
  /\ ret # NotApplied
  /\ ret.value = "Unknown error occurred"

\* the schema { name: string of at least one character, age: number of at least 0 }
AcceptsName(v) == v.type = "string" /\ v.val # ""
AcceptsAge(v) == v.type = "number" /\ v.num >= 0
\* the fields of the input the schema rejects, in the order of the schema
RejectedFields(input) ==
  (IF AcceptsName(input.name) THEN <<>> ELSE <<"name">>)
  \o (IF AcceptsAge(input.age) THEN <<>> ELSE <<"age">>)

(* C18: validateInput(schema, input) never throws on a validation failure  *)
(* and returns a tagged result: success with the data for every input the  *)
(* schema accepts, and for an input violating N constraints a failure      *)
(* whose errors list has exactly N entries in the order of the schema (for *)
(* the schema {name, age} with both fields invalid, errors[1] is that of   *)
(* 'name' and errors[2] that of 'age').                                    *)
C18_OneErrorPerViolation ==
  (fn = "validateInput" /\ ret # NotApplied) =>
    /\ ~ret.threw
    /\ ret.value.success <=> (RejectedFields(arg) = <<>>)
    /\ ret.value.success => (ret.value.data = arg /\ ret.value.errors = <<>>)
    /\ ~ret.value.success =>
         /\ Len(ret.value.errors) = Len(RejectedFields(arg))
         /\ \A i \in 1..Len(ret.value.errors) :
              ret.value.errors[i].field = RejectedFields(arg)[i]

C18_Witness ==
  /\ fn = "validateInput"
  /\ arg = [name |-> StringValue(""), age |-> Number(-1)]
  /\ ret # NotApplied
  /\ Len(ret.value.errors) = 2

\* the path has a segment '..': two dots between separators or the ends
HasParentSegment(path) ==
  \E i \in 1..(Len(path) - 1) :
    /\ path[i] = "." /\ path[i + 1] = "."
    /\ (i = 1 \/ path[i - 1] = "/")
    /\ (i + 1 = Len(path) \/ path[i + 2] = "/")

IsAbsolute(path) == Len(path) >= 1 /\ path[1] = "/"

NotDenied(c) == c \notin Denylist

(* C19: validateFilePath throws for every path that has a parent-directory *)
(* segment '..' or begins with '/', and for every other path returns the   *)
(* path without the disallowed punctuation: a path that has none is        *)
(* returned unchanged.                                                     *)
C19_PathRejectedOrCleaned ==
  (fn = "validateFilePath" /\ ret # NotApplied) =>
    IF HasParentSegment(arg) \/ IsAbsolute(arg)
    THEN ret.threw /\ ret.error.code = "VALIDATION_ERROR"
    ELSE /\ ~ret.threw
         /\ ret.value = SelectSeq(arg, NotDenied)
         /\ (\A i \in 1..Len(arg) : NotDenied(arg[i])) => ret.value = arg

\* 'file;name.txt' gives 'filename.txt'
C19_Witness ==
  /\ fn = "validateFilePath"
  /\ arg = <<"f", "i", "l", "e", ";", "n", "a", "m", "e", ".", "t", "x", "t">>
  /\ ret # NotApplied
  /\ ~ret.threw
  /\ ret.value = <<"f", "i", "l", "e", "n", "a", "m", "e", ".", "t", "x", "t">>

NotWhitespace(c) == c \notin Whitespace
KeptVisible(c) == c \notin Denylist /\ c \notin Whitespace

\* a is b with some characters left out
RECURSIVE IsSubsequence(_, _)
IsSubsequence(a, b) ==
  IF a = <<>> THEN TRUE
  ELSE IF b = <<>> THEN FALSE
  ELSE IF a[1] = b[1] THEN IsSubsequence(Tail(a), Tail(b))
  ELSE IsSubsequence(a, Tail(b))

(* C20: for every input string, the result of sanitizeString has none of   *)
(* the denylisted characters, has no leading or trailing whitespace, and   *)
(* keeps the remaining characters in their original order: it is the input *)
(* with characters left out, and none of the input's visible characters    *)
(* outside the denylist is left out.                                       *)
C20_SanitizedString ==
  (fn = "sanitizeString" /\ ret # NotApplied) =>
    /\ ~ret.threw
    /\ \A i \in 1..Len(ret.value) : ret.value[i] \notin Denylist
    /\ ret.value # <<>> =>
         /\ ret.value[1] \notin Whitespace
         /\ ret.value[Len(ret.value)] \notin Whitespace
    /\ IsSubsequence(ret.value, arg)
    /\ SelectSeq(ret.value, NotWhitespace) = SelectSeq(arg, KeptVisible)

\* a denylisted character in front of whitespace: the whitespace is trimmed too
C20_Witness ==
  /\ fn = "sanitizeString"
  /\ arg = <<"<", " ", "a">>
  /\ ret # NotApplied
  /\ ret.value = <<"a">>

\* the state is one of those the request went through
Passed(r, state) == \E i \in 1..Len(hist[r]) : hist[r][i] = state

(* C21, as claimed: a ReadResource request follows the state machine of    *)
(* CallTool: its resource handler is invoked only after the request passed *)
(* the Validated state, never directly from Received.                      *)
C21_ResourceHandlerAfterValidated ==
  \A r \in Req :
    (kind[r] = "ReadResource" /\ call[r] # NoCall) => Passed(r, "Validated")

\* the process log holds an entry with the message
Logged(message) == \E i \in 1..Len(processLog) : processLog[i].message = message

(* C22: during start(), the health checker is started only when            *)
(* enableHealthCheck is set and, when it is started, the transport         *)
(* connection is attempted only after the health checker has started; if   *)
(* the start of the health checker or the connect fails, the process exits *)
(* with code 1 and 'MCP server started successfully' is never logged; that *)
(* log entry is written only after connect has completed.                  *)
C22_StartupOrder ==
  /\ health # "none" => config.enableHealthCheck
  /\ (config.enableHealthCheck /\ transport # "none") => health = "started"
  /\ (health = "failed" \/ transport = "failed") =>
       /\ exited
       /\ exitCode = 1
       /\ mainPc = "failed"
       /\ ~Logged("MCP server started successfully")
  /\ health = "failed" => transport = "none"
  /\ Logged("MCP server started successfully") <=> transport = "connected"

\* the health checker started, then the connect failed
C22_Witness ==
  /\ health = "started"
  /\ transport = "failed"
  /\ exited
  /\ exitCode = 1

SupportedOperations ==
  {"count", "uppercase", "lowercase", "reverse", "wordcount", "sentiment"}

(* C23: called with a string text and an operation outside the six         *)
(* supported ones, the text-processing handler does not throw: it returns  *)
(* a result with isError: true whose single text content is                *)
(* 'Error: Unsupported operation: <operation>'; for every supported        *)
(* operation on a string text it returns a result with one text content    *)
(* and without the isError marker.                                         *)
C23_UnsupportedOperationIsSoftFailure ==
  (fn = "textProcessingTool.handler" /\ ret # NotApplied /\ arg.text.type = "string") =>
    /\ ~ret.threw
    /\ IF arg.operation.val \in SupportedOperations
       THEN /\ DOMAIN ret.value = {"content"}
            /\ Len(ret.value.content) = 1
            /\ ret.value.content[1].type = "text"
            /\ arg.operation.val = "reverse" =>
                 ret.value.content[1].text = Concat(Reverse(arg.text.chars))
       ELSE ret.value =
              [content |-> <<[type |-> "text",
                              text |-> "Error: Unsupported operation: " \o arg.operation.val]>>,
               isError |-> TRUE]

C23_Witness ==
  /\ fn = "textProcessingTool.handler"
  /\ arg = [operation |-> StringValue("rot13"), text |-> TextValue(<<"a", "B">>)]
  /\ ret # NotApplied
  /\ ret.value.isError
  /\ ret.value.content[1].text = "Error: Unsupported operation: rot13"

(* C25, as claimed: the text-processing handler never throws, whatever     *)
(* argument payload the dispatcher passes to it (an empty payload, a text  *)
(* that is missing or no string): every failure inside the handler is      *)
(* returned as a result with isError: true.                                *)
C25_HandlerNeverThrows ==
  (fn = "textProcessingTool.handler" /\ ret # NotApplied) =>
    /\ ~ret.threw
    /\ arg.text.type # "string" => ret.value.isError

(* C24, as claimed: every received CallTool or ReadResource request        *)
(* eventually reaches a terminal state, Responded or Failed, and never     *)
(* both: no request stays in a non-terminal state for ever.                *)
C24_RequestReachesTerminalState ==
  \A r \in Req :
    /\ [](~(Passed(r, "Responded") /\ Passed(r, "Failed")))
    /\ (kind[r] \in {"CallTool", "ReadResource"}) ~> (pc[r] \in {"Responded", "Failed"})

(* C26, as claimed: every path validateFilePath returns is safe after the  *)
(* punctuation has been stripped: it has no '..' segment and does not      *)
(* begin with '/', also when the dangerous sequence appears only once the  *)
(* disallowed punctuation is removed from the input.                       *)
C26_ReturnedPathIsSafe ==
  (fn = "validateFilePath" /\ ret # NotApplied /\ ~ret.threw) =>
    /\ ~HasParentSegment(ret.value)
    /\ ~IsAbsolute(ret.value)

(* C27, as claimed: shutdown runs at most once per process: a second       *)
(* termination signal that arrives while a close of the transport is in    *)
(* progress does not invoke the close again, and the process exits with    *)
(* the exit code the first close determines.                               *)
C27_ShutdownRunsOnce ==
  /\ closeCalls <= 1
  /\ exited =>
       /\ shutdowns[1].state \in {"closed", "failed"}
       /\ exitCode = (IF shutdowns[1].state = "closed" THEN 0 ELSE 1)

====
